---- MODULE Spec2Model ----
(***************************************************************************)
(* Model of script/plot_bdg_visualize.py: the file selector, the grid      *)
(* rasterizer, the two range choosers, the output-path builder and the     *)
(* driver main().                                                          *)
(*                                                                         *)
(* Numbers.  A float is modelled as an exact real on a lattice: the        *)
(* integer v stands for v / Scale.  The result of a range chooser, which   *)
(* the degenerate-range guard may move by 1e-12, is a record [u, t] that   *)
(* stands for u / Scale + t * 1e-12; since 1e-12 is far below one lattice  *)
(* unit, such records are ordered lexicographically.  Arithmetic is exact  *)
(* (the rounding of IEEE doubles is not modelled); math.isclose keeps its  *)
(* tolerances.  A cell of a grid is [nan |-> TRUE, v |-> 0] (missing) or   *)
(* [nan |-> FALSE, v |-> value].                                           *)
(*                                                                         *)
(* Text.  A file name, a glob pattern and a path component are sequences   *)
(* of one-character strings.                                               *)
(***************************************************************************)
EXTENDS Integers, Sequences, FiniteSets, TLC

VARIABLES
    \* main()
    pc, args, fs, dirs, chosen, ki, log, err,
    \* to_grid
    gpc, df, gres,
    \* choose_zrange / robust_range
    rpc, kind, grid, robust, zloc, zres, rloc, rres,
    \* make_out_path
    ppc, pin, pout

vars == <<pc, args, fs, dirs, chosen, ki, log, err,
          gpc, df, gres,
          rpc, kind, grid, robust, zloc, zres, rloc, rres,
          ppc, pin, pout>>

mainVars  == <<pc, args, fs, dirs, chosen, ki, log, err>>
gridVars  == <<gpc, df, gres>>
rangeVars == <<rpc, kind, grid, robust, zloc, zres, rloc, rres>>
pathVars  == <<ppc, pin, pout>>

(***************************************************************************)
(* Bounds of the model.                                                    *)
(***************************************************************************)
MaxCells == 3
MaxRows  == 3
MaxCoord == 1
MaxMtime == 2
MaxMid   == 2

(***************************************************************************)
(* Numbers.                                                                *)
(***************************************************************************)
Scale == 10 ^ 4

Abs(a) == IF a < 0 THEN -a ELSE a
Max2(a, b) == IF a >= b THEN a ELSE b

NaN    == [nan |-> TRUE,  v |-> 0]
Fin(v) == [nan |-> FALSE, v |-> v]
IsFinite(c) == ~c.nan

Num(u, t) == [u |-> u, t |-> t]
NumLess(a, b) == a.u < b.u \/ (a.u = b.u /\ a.t < b.t)

RECURSIVE DivPow10(_, _)
DivPow10(a, n) == IF n = 0 THEN a ELSE DivPow10(a \div 10, n - 1)

\* ceil(a / b) for b > 0
CeilDiv(a, b) == -((-a) \div b)

(***************************************************************************)
(* Sequences of numbers.                                                   *)
(***************************************************************************)
RECURSIVE Flatten(_)
Flatten(rows) ==
    IF rows = <<>> THEN <<>> ELSE Head(rows) \o Flatten(Tail(rows))

\* grid[np.isfinite(grid)]: the finite values of the grid, row-major
FiniteValues(g) ==
    LET cells == SelectSeq(Flatten(g), IsFinite)
    IN  [j \in 1..Len(cells) |-> cells[j].v]

RECURSIVE Insert(_, _)
Insert(a, s) ==
    IF s = <<>> THEN <<a>>
    ELSE IF a <= Head(s) THEN <<a>> \o s
    ELSE <<Head(s)>> \o Insert(a, Tail(s))

RECURSIVE Sort(_)
Sort(s) == IF s = <<>> THEN <<>> ELSE Insert(Head(s), Sort(Tail(s)))

\* finite.max(), finite.min() of a non-empty array
ArrayMax(s) == Sort(s)[Len(s)]
ArrayMin(s) == Sort(s)[1]

\* np.quantile(s, qNum/100), numpy's default linear interpolation between the
\* order statistics around the position q * (n - 1)
Quantile(s, qNum) ==
    LET srt  == Sort(s)
        n    == Len(s)
        pos  == qNum * (n - 1)
        lo   == pos \div 100
        frac == pos % 100
    IN  IF frac = 0 THEN srt[lo + 1]
        ELSE srt[lo + 1] + (frac * (srt[lo + 2] - srt[lo + 1])) \div 100

(***************************************************************************)
(* math.isclose(a, b, rel_tol=1e-12, abs_tol=1e-12)                        *)
(***************************************************************************)
RelTolDigits == 12
AbsTolDigits == 12

IsClose(a, b) ==
    LET d == Abs(a - b)
    IN  \/ d <= DivPow10(Max2(Abs(a), Abs(b)), RelTolDigits)
        \/ d <= DivPow10(Scale, AbsTolDigits)

(***************************************************************************)
(* nice_step_125(x) for x = n / d with d > 0 (and x >= 1 / Scale when      *)
(* positive): x rounded up to 1, 2, 5 or 10 times a power of ten.          *)
(***************************************************************************)
RECURSIVE Pow10Floor(_, _, _)
Pow10Floor(n, d, p) ==
    IF 10 * p * d <= n THEN Pow10Floor(n, d, 10 * p) ELSE p

\* mutant: strict comparisons, so an exact 1, 2 or 5 moves to the next step
nice_step_125_Strict(n, d) ==
    IF n <= 0 THEN Scale
    ELSE LET exp == Pow10Floor(n, d, 1)
         IN  IF n < 1 * exp * d THEN 1 * exp
             ELSE IF n < 2 * exp * d THEN 2 * exp
             ELSE IF n < 5 * exp * d THEN 5 * exp
             ELSE 10 * exp

nice_step_125(n, d) ==
    IF n <= 0 THEN Scale
    ELSE LET exp == Pow10Floor(n, d, 1)
         IN  IF n <= 1 * exp * d THEN 1 * exp
             ELSE IF n <= 2 * exp * d THEN 2 * exp
             ELSE IF n <= 5 * exp * d THEN 5 * exp
             ELSE 10 * exp

(***************************************************************************)
(* choose_zrange                                                           *)
(***************************************************************************)
TickTarget   == 7
ZLowQ        == 2
LowQ         == 2
HighQ        == 98
EpsRelDigits == 3

ZeroFloorKinds == {"density", "magnetization"}

\* lines 92-95: the lower bound
ZMinRule(k, finite, rb) ==
    IF k \in ZeroFloorKinds THEN 0
    ELSE IF rb THEN Quantile(finite, ZLowQ) ELSE ArrayMin(finite)

\* lines 80-95: the locals of choose_zrange before the guard
ZLocals(k, g, rb) ==
    LET finite  == FiniteValues(g)
        max_val == ArrayMax(finite)
        step    == nice_step_125(max_val, TickTarget)
        zmax0   == step * CeilDiv(max_val, step)
        zmax    == IF IsClose(zmax0, max_val) THEN zmax0 + step ELSE zmax0
    IN  [empty |-> FALSE, max_val |-> max_val, step |-> step,
         zmin |-> ZMinRule(k, finite, rb), zmax |-> zmax]

NoLocals == [empty |-> TRUE, max_val |-> 0, step |-> 0, zmin |-> 0, zmax |-> 0]

\* mutant: the guard always uses the relative epsilon, which is 0 at 0
ZGuard_RelativeOnly(zmin, zmax) ==
    IF zmin = zmax
    THEN LET eps == DivPow10(Abs(zmax), EpsRelDigits)
         IN  [zmin |-> Num(zmin - eps, 0), zmax |-> Num(zmax + eps, 0)]
    ELSE [zmin |-> Num(zmin, 0), zmax |-> Num(zmax, 0)]

\* lines 98-101: the degenerate-range guard
ZGuard(zmin, zmax) ==
    IF zmin = zmax
    THEN LET eps == IF zmax = 0 THEN Num(0, 1)
                    ELSE Num(DivPow10(Abs(zmax), EpsRelDigits), 0)
         IN  [zmin |-> Num(zmin - eps.u, -eps.t), zmax |-> Num(zmax + eps.u, eps.t)]
    ELSE [zmin |-> Num(zmin, 0), zmax |-> Num(zmax, 0)]

choose_zrange(k, g, rb) ==
    IF FiniteValues(g) = <<>>
    THEN [zmin |-> Num(0, 0), zmax |-> Num(Scale, 0)]
    ELSE LET l == ZLocals(k, g, rb) IN ZGuard(l.zmin, l.zmax)

(***************************************************************************)
(* robust_range                                                            *)
(***************************************************************************)
\* lines 53-56
RGuard(lo, hi) ==
    IF lo = hi
    THEN LET eps == IF lo = 0 THEN Num(0, 1)
                    ELSE Num(DivPow10(Abs(lo), EpsRelDigits), 0)
         IN  [zmin |-> Num(lo - eps.u, -eps.t), zmax |-> Num(hi + eps.u, eps.t)]
    ELSE [zmin |-> Num(lo, 0), zmax |-> Num(hi, 0)]

\* lines 51-52: the locals of robust_range before the guard
RLocals(g) ==
    LET finite == FiniteValues(g)
    IN  [empty |-> FALSE, lo |-> Quantile(finite, LowQ), hi |-> Quantile(finite, HighQ)]

NoRLocals == [empty |-> TRUE, lo |-> 0, hi |-> 0]

robust_range(g) ==
    IF FiniteValues(g) = <<>>
    THEN [zmin |-> Num(-Scale, 0), zmax |-> Num(Scale, 0)]
    ELSE LET l == RLocals(g) IN RGuard(l.lo, l.hi)

NoRange == [zmin |-> Num(0, 0), zmax |-> Num(0, 0)]

(***************************************************************************)
(* The range choosers applied to bounded inputs.                           *)
(***************************************************************************)
KINDS == <<"density", "orderParameter", "magnetization">>
KindSet == {KINDS[j] : j \in 1..Len(KINDS)}

RangeVals == {-15000, -10000, -5000, 0, 3000, 5000, 7000, 10000}
RangeCells == {NaN} \cup {Fin(v) : v \in RangeVals}
RangeGrids == {<<row>> : row \in UNION {[1..n -> RangeCells] : n \in 1..MaxCells}}

RangeIdle ==
    /\ rpc = "idle" /\ kind = "density" /\ grid = <<<<NaN>>>> /\ robust = TRUE
    /\ zloc = NoLocals /\ zres = NoRange /\ rloc = NoRLocals /\ rres = NoRange

InitRangeInput ==
    /\ rpc = "input"
    /\ kind \in KindSet
    /\ grid \in RangeGrids
    /\ robust \in BOOLEAN
    /\ zloc = NoLocals /\ zres = NoRange /\ rloc = NoRLocals /\ rres = NoRange

\* choose_zrange on the drawn kind, grid and robust flag
ChooseZRange ==
    /\ rpc = "input"
    /\ zloc' = IF FiniteValues(grid) = <<>> THEN NoLocals
               ELSE ZLocals(kind, grid, robust)
    /\ zres' = choose_zrange(kind, grid, robust)
    /\ rpc' = "zrange"
    /\ UNCHANGED <<kind, grid, robust, rloc, rres>>
    /\ UNCHANGED <<mainVars, gridVars, pathVars>>

\* robust_range on the values of the same grid
RobustRange ==
    /\ rpc = "zrange"
    /\ rloc' = IF FiniteValues(grid) = <<>> THEN NoRLocals ELSE RLocals(grid)
    /\ rres' = robust_range(grid)
    /\ rpc' = "rrange"
    /\ UNCHANGED <<kind, grid, robust, zloc, zres>>
    /\ UNCHANGED <<mainVars, gridVars, pathVars>>

NextRange == ChooseZRange \/ RobustRange

(***************************************************************************)
(* to_grid.  A data frame is [columns, rows]; a row is [x, y, val].        *)
(***************************************************************************)
NoGrid(e) == [err |-> e, grid |-> <<>>, lx |-> 0, ly |-> 0]

\* xs.max() of a non-empty integer array
IntMax(s) == CHOOSE m \in {s[j] : j \in 1..Len(s)} : \A j \in 1..Len(s) : s[j] <= m

\* np.full((ly, lx), np.nan)
FullNaN(ly, lx) == [r \in 1..ly |-> [c \in 1..lx |-> NaN]]

\* mutant: the rows are assigned last to first, so the first duplicate wins
RECURSIVE AssignRows_FirstWins(_, _)
AssignRows_FirstWins(g, rows) ==
    IF rows = <<>> THEN g
    ELSE LET r == rows[Len(rows)]
         IN  AssignRows_FirstWins([g EXCEPT ![r.y + 1][r.x + 1] = r.val],
                                  SubSeq(rows, 1, Len(rows) - 1))

\* grid[ys, xs] = vals: the rows are assigned in input order
RECURSIVE AssignRows(_, _)
AssignRows(g, rows) ==
    IF rows = <<>> THEN g
    ELSE LET r == Head(rows)
         IN  AssignRows([g EXCEPT ![r.y + 1][r.x + 1] = r.val], Tail(rows))

to_grid(d, value_col) ==
    IF "x" \notin d.columns \/ "y" \notin d.columns THEN NoGrid("ValueError")
    ELSE IF value_col \notin d.columns THEN NoGrid("KeyError")
    ELSE IF d.rows = <<>> THEN NoGrid("ValueError")
    ELSE LET xs == [j \in 1..Len(d.rows) |-> d.rows[j].x]
             ys == [j \in 1..Len(d.rows) |-> d.rows[j].y]
             lx == IntMax(xs) + 1
             ly == IntMax(ys) + 1
         IN  [err |-> "none", grid |-> AssignRows(FullNaN(ly, lx), d.rows),
              lx |-> lx, ly |-> ly]

GridVals == {Fin(1000), Fin(2000)}
GridRow  == [x : 0..MaxCoord, y : 0..MaxCoord, val : GridVals]
GridRows == UNION {[1..n -> GridRow] : n \in 0..MaxRows}
FullColumns == {"x", "y", "v"}

GridIdle ==
    /\ gpc = "idle" /\ df = [columns |-> {}, rows |-> <<>>] /\ gres = NoGrid("none")

InitGridInput ==
    /\ gpc = "input"
    /\ \/ df \in [columns : {FullColumns}, rows : GridRows]
       \/ df \in [columns : {FullColumns \ {c} : c \in FullColumns}, rows : {<<>>}]
    /\ gres = NoGrid("none")

ToGrid ==
    /\ gpc = "input"
    /\ gres' = to_grid(df, "v")
    /\ gpc' = "done"
    /\ UNCHANGED df
    /\ UNCHANGED <<mainVars, rangeVars, pathVars>>

NextGrid == ToGrid

(***************************************************************************)
(* make_out_path.  A path is [dir, name].                                  *)
(***************************************************************************)
Cs_bdg  == <<"b", "d", "g", "_">>
Cs_plot == <<"b", "d", "g", "_", "p", "l", "o", "t", "_">>
Cs_html == <<".", "h", "t", "m", "l">>
Cs_csv  == <<".", "c", "s", "v">>
Cs_3d   == <<"3", "d">>
Cs_2d   == <<"2", "d">>

NoPath == [dir |-> "", name |-> <<>>]

\* str.rfind: the last index of c in s, 0 when there is none
RECURSIVE RFind(_, _, _)
RFind(s, c, j) ==
    IF j = 0 THEN 0 ELSE IF s[j] = c THEN j ELSE RFind(s, c, j - 1)

\* PurePath.stem: the name up to its last dot, when that dot is neither the
\* first nor the last character
Stem(name) ==
    LET j == RFind(name, ".", Len(name))
    IN  IF 1 < j /\ j < Len(name) THEN SubSeq(name, 1, j - 1) ELSE name

StartsWith(s, p) == Len(s) >= Len(p) /\ SubSeq(s, 1, Len(p)) = p

\* mutant: every leading "bdg_" is removed, not only one
RECURSIVE StripBdg_All(_)
StripBdg_All(stem) ==
    IF StartsWith(stem, Cs_bdg)
    THEN StripBdg_All(SubSeq(stem, Len(Cs_bdg) + 1, Len(stem)))
    ELSE stem

StripBdg(stem) ==
    IF StartsWith(stem, Cs_bdg) THEN SubSeq(stem, Len(Cs_bdg) + 1, Len(stem))
    ELSE stem

make_out_path(out_dir, dim, csv_path) ==
    [dir  |-> out_dir,
     name |-> Cs_plot \o dim \o <<"_">> \o StripBdg(Stem(csv_path.name)) \o Cs_html]

ExampleName ==
    <<"b", "d", "g", "_", "d", "e", "n", "s", "i", "t", "y", "_", "N", "=", "1",
      "0", "0", "_", "h", "=", "0", ".", "0", "0", ".", "c", "s", "v">>

NamePrefixes == {<<>>, Cs_bdg, Cs_bdg \o Cs_bdg, <<"b", "d", "g">>, <<"x">> \o Cs_bdg}
NameMiddles  == UNION {[1..n -> {"x", "."}] : n \in 0..MaxMid}
NameSuffixes == {<<>>, Cs_csv, <<".">>}
PathNames ==
    {ExampleName}
    \cup {p \o m \o x : p \in NamePrefixes, m \in NameMiddles, x \in NameSuffixes}

PathIdle ==
    /\ ppc = "idle"
    /\ pin = [out_dir |-> "", dim |-> <<>>, csv_path |-> NoPath]
    /\ pout = NoPath

InitPathInput ==
    /\ ppc = "input"
    /\ pin \in [out_dir : {"in", "out"}, dim : {Cs_3d, Cs_2d},
                csv_path : [dir : {"in"}, name : PathNames \ {<<>>}]]
    /\ pout = NoPath

MakeOutPath ==
    /\ ppc = "input"
    /\ pout' = make_out_path(pin.out_dir, pin.dim, pin.csv_path)
    /\ ppc' = "done"
    /\ UNCHANGED pin
    /\ UNCHANGED <<mainVars, gridVars, rangeVars>>

NextPath == MakeOutPath

(***************************************************************************)
(* pick_latest_file.  The input directory holds some of the files of       *)
(* Catalogue; fs[j] is the modification time of Catalogue[j], 0 when the   *)
(* file does not exist.                                                    *)
(***************************************************************************)
Cs_density        == <<"d", "e", "n", "s", "i", "t", "y">>
Cs_orderParameter == <<"o", "r", "d", "e", "r", "P", "a", "r", "a", "m", "e", "t", "e", "r">>
Cs_magnetization  == <<"m", "a", "g", "n", "e", "t", "i", "z", "a", "t", "i", "o", "n">>

KindChars(k) ==
    CASE k = "density"        -> Cs_density
      [] k = "orderParameter" -> Cs_orderParameter
      [] k = "magnetization"  -> Cs_magnetization

KIND_TO_PATTERN(k) == Cs_bdg \o KindChars(k) \o <<"_", "*">> \o Cs_csv
KIND_TO_COLUMN(k)  == k

Catalogue ==
    << Cs_bdg \o Cs_density \o <<"_", "a">> \o Cs_csv,
       Cs_bdg \o Cs_density \o <<"_", "b">> \o Cs_csv,
       Cs_bdg \o Cs_density \o <<"_", "a", ".", "t", "x", "t">>,
       Cs_bdg \o Cs_orderParameter \o <<"_", "a">> \o Cs_csv,
       Cs_bdg \o Cs_magnetization \o <<"_">> \o Cs_csv >>

InDir == "in"

\* fnmatch of a name against a pattern whose only wildcard is "*"
RECURSIVE GlobMatch(_, _)
GlobMatch(pat, name) ==
    IF pat = <<>> THEN name = <<>>
    ELSE IF Head(pat) = "*"
         THEN \/ GlobMatch(Tail(pat), name)
              \/ name # <<>> /\ GlobMatch(pat, Tail(name))
         ELSE name # <<>> /\ Head(name) = Head(pat) /\ GlobMatch(Tail(pat), Tail(name))

Perms(S) ==
    {f \in [1..Cardinality(S) -> S] :
        \A a, b \in 1..Cardinality(S) : a # b => f[a] # f[b]}

\* line 25: glob.glob returns the matching paths in an arbitrary order
GlobListings(fsx, directory, pattern) ==
    Perms({[dir |-> directory, name |-> Catalogue[j]] :
              j \in {c \in 1..Len(Catalogue) :
                        /\ directory = InDir
                        /\ fsx[c] > 0
                        /\ GlobMatch(pattern, Catalogue[c])}})

\* p.stat().st_mtime
Mtime(fsx, p) == fsx[CHOOSE j \in 1..Len(Catalogue) : Catalogue[j] = p.name]

\* mutant: the comparison is reversed, so the oldest file is kept
RECURSIVE MaxByMtime_Oldest(_, _, _)
MaxByMtime_Oldest(fsx, paths, best) ==
    IF paths = <<>> THEN best
    ELSE MaxByMtime_Oldest(fsx, Tail(paths),
                           IF Mtime(fsx, Head(paths)) < Mtime(fsx, best)
                           THEN Head(paths) ELSE best)

\* max(paths, key=...): the first of the greatest
RECURSIVE MaxByMtime(_, _, _)
MaxByMtime(fsx, paths, best) ==
    IF paths = <<>> THEN best
    ELSE MaxByMtime(fsx, Tail(paths),
                    IF Mtime(fsx, Head(paths)) > Mtime(fsx, best)
                    THEN Head(paths) ELSE best)

NoErr == [type |-> "none", pattern |-> <<>>, directory |-> ""]

\* lines 26-28, on the listing of line 25
pick_latest_file(paths, fsx, directory, pattern) ==
    IF paths = <<>>
    THEN [err  |-> [type |-> "FileNotFoundError", pattern |-> pattern,
                    directory |-> directory],
          path |-> NoPath]
    ELSE [err |-> NoErr, path |-> MaxByMtime(fsx, Tail(paths), Head(paths))]

(***************************************************************************)
(* main.  log is the sequence of the run's effects: directory creation,    *)
(* globs, CSV reads, HTML writes, console prints and the raised error.     *)
(***************************************************************************)
Event(op, k, dim, path) ==
    [op |-> op, kind |-> k, dim |-> dim, path |-> path, robust |-> FALSE]

\* mutant: the test reads one flag negated
FlagsConflict_OneFlag(a) == a.only3d /\ ~a.only2d
FlagsConflict(a) == a.only3d /\ a.only2d
\* mutant: the 3D output is tied to the wrong flag
WantSurface_WrongFlag(a) == ~a.only3d
WantSurface(a)   == ~a.only2d
WantHeatmap(a)   == ~a.only3d
OutDir(a)        == IF a.out # "" THEN a.out ELSE InDir
Robust(a)        == ~a.no_robust

\* mutant: rendering starts after the first selection
AfterSelect_Early(j) == "print"
\* the dict comprehension of line 201 goes on to the next kind, or ends
AfterSelect(j) == IF j < Len(KINDS) THEN "select" ELSE "print"
\* the loop of line 208 goes on to the next kind, or ends
AfterKind(j)   == IF j < Len(KINDS) THEN "surface" ELSE "finish"

\* what pd.read_csv finds in the chosen file: the columns the renderer needs, or not
CsvContents == {"ok", "bad_schema"}

Raise(type) ==
    /\ pc' = "error"
    /\ err' = [type |-> type, pattern |-> <<>>, directory |-> ""]

MainIdle ==
    /\ pc = "idle"
    /\ args = [only3d |-> FALSE, only2d |-> FALSE, out |-> "", no_robust |-> FALSE]
    /\ fs = [j \in 1..Len(Catalogue) |-> 0]
    /\ dirs = {} /\ chosen = [k \in KindSet |-> NoPath] /\ ki = 1
    /\ log = <<>> /\ err = NoErr

InitMainInput ==
    /\ pc = "check"
    /\ args \in [only3d : BOOLEAN, only2d : BOOLEAN, out : {"", "out"},
                 no_robust : BOOLEAN]
    /\ fs \in [1..Len(Catalogue) -> 0..MaxMtime]
    /\ dirs = {InDir}
    /\ chosen = [k \in KindSet |-> NoPath]
    /\ ki = 1
    /\ log = <<>>
    /\ err = NoErr

\* lines 192-193
CheckFlags ==
    /\ pc = "check"
    /\ IF FlagsConflict(args)
       THEN /\ Raise("ValueError")
            /\ log' = Append(log, Event("raise", "", <<>>, NoPath))
       ELSE /\ pc' = "mkdir"
            /\ UNCHANGED <<err, log>>
    /\ UNCHANGED <<args, fs, dirs, chosen, ki>>
    /\ UNCHANGED <<gridVars, rangeVars, pathVars>>

\* lines 195-199
MkOutDir ==
    /\ pc = "mkdir"
    /\ dirs' = dirs \cup {OutDir(args)}
    /\ log' = Append(log, Event("mkdir", "", <<>>, [dir |-> OutDir(args), name |-> <<>>]))
    /\ pc' = "select"
    /\ ki' = 1
    /\ UNCHANGED <<args, fs, chosen, err>>
    /\ UNCHANGED <<gridVars, rangeVars, pathVars>>

\* line 201, one kind
SelectFile ==
    /\ pc = "select"
    /\ LET k   == KINDS[ki]
           pat == KIND_TO_PATTERN(k)
       IN  \E paths \in GlobListings(fs, InDir, pat) :
             LET r == pick_latest_file(paths, fs, InDir, pat)
             IN  IF r.err.type # "none"
                 THEN /\ pc' = "error"
                      /\ err' = r.err
                      /\ log' = log \o <<Event("glob", k, <<>>, NoPath),
                                         Event("raise", k, <<>>, NoPath)>>
                      /\ UNCHANGED <<chosen, ki>>
                 ELSE /\ chosen' = [chosen EXCEPT ![k] = r.path]
                      /\ log' = Append(log, Event("glob", k, <<>>, r.path))
                      /\ pc' = AfterSelect(ki)
                      /\ ki' = IF ki < Len(KINDS) THEN ki + 1 ELSE 1
                      /\ UNCHANGED err
    /\ UNCHANGED <<args, fs, dirs>>
    /\ UNCHANGED <<gridVars, rangeVars, pathVars>>

\* lines 203-207
PrintSelected ==
    /\ pc = "print"
    /\ log' = Append(log, Event("print", "selected", <<>>, NoPath))
    /\ pc' = "surface"
    /\ ki' = 1
    /\ UNCHANGED <<args, fs, dirs, chosen, err>>
    /\ UNCHANGED <<gridVars, rangeVars, pathVars>>

\* write_surface_html / write_heatmap_html and the print that follows it
Render(k, dim, next) ==
    \E content \in CsvContents :
        IF content = "ok"
        THEN LET out == make_out_path(OutDir(args), dim, chosen[k])
             IN  /\ log' = log \o <<Event("read_csv", k, dim, chosen[k]),
                                    [Event("write_html", k, dim, out) EXCEPT !.robust = Robust(args)],
                                    Event("print", "saved", dim, out)>>
                 /\ pc' = next
                 /\ UNCHANGED err
        ELSE /\ log' = log \o <<Event("read_csv", k, dim, chosen[k]),
                                Event("raise", k, dim, NoPath)>>
             /\ Raise("ValueError")

\* lines 209-211
Surface ==
    /\ pc = "surface"
    /\ IF WantSurface(args)
       THEN Render(KINDS[ki], Cs_3d, "heatmap")
       ELSE /\ pc' = "heatmap"
            /\ UNCHANGED <<log, err>>
    /\ UNCHANGED <<args, fs, dirs, chosen, ki>>
    /\ UNCHANGED <<gridVars, rangeVars, pathVars>>

\* lines 213-215
Heatmap ==
    /\ pc = "heatmap"
    /\ IF WantHeatmap(args)
       THEN Render(KINDS[ki], Cs_2d, AfterKind(ki))
       ELSE /\ pc' = AfterKind(ki)
            /\ UNCHANGED <<log, err>>
    /\ ki' = IF pc' = "surface" THEN ki + 1 ELSE ki
    /\ UNCHANGED <<args, fs, dirs, chosen>>
    /\ UNCHANGED <<gridVars, rangeVars, pathVars>>

\* line 217
Finish ==
    /\ pc = "finish"
    /\ log' = Append(log, Event("print", "done", <<>>, NoPath))
    /\ pc' = "done"
    /\ UNCHANGED <<args, fs, dirs, chosen, ki, err>>
    /\ UNCHANGED <<gridVars, rangeVars, pathVars>>

NextMain ==
    \/ CheckFlags
    \/ MkOutDir
    \/ SelectFile
    \/ PrintSelected
    \/ Surface
    \/ Heatmap
    \/ Finish

(***************************************************************************)
(* Specifications: the driver, and each pure function on bounded inputs.   *)
(***************************************************************************)
InitMain  == InitMainInput /\ GridIdle /\ RangeIdle /\ PathIdle
InitGrid  == MainIdle /\ InitGridInput /\ RangeIdle /\ PathIdle
InitRange == MainIdle /\ GridIdle /\ InitRangeInput /\ PathIdle
InitPath  == MainIdle /\ GridIdle /\ RangeIdle /\ InitPathInput

SpecMain  == InitMain  /\ [][NextMain]_vars
SpecGrid  == InitGrid  /\ [][NextGrid]_vars
SpecRange == InitRange /\ [][NextRange]_vars
SpecPath  == InitPath  /\ [][NextPath]_vars

(***************************************************************************)
(* Properties of the range choosers (under SpecRange).                     *)
(***************************************************************************)
ZDone == rpc \in {"zrange", "rrange"}
RDone == rpc = "rrange"

\* the finite values of the drawn grid, and the greatest of them
GridFinite == {grid[r][c].v : r \in {1}, c \in {c \in 1..Len(grid[1]) : ~grid[1][c].nan}}
GridMax == CHOOSE m \in GridFinite : \A v \in GridFinite : v <= m

\* the lattice values m * 10^k, m in {1, 2, 5, 10}
NiceSteps == {m * 10 ^ k : m \in {1, 2, 5, 10}, k \in 0..6}
IsSmallestNiceAtLeast(step, n, d) ==
    /\ step \in NiceSteps
    /\ step * d >= n
    /\ \A s2 \in NiceSteps : s2 * d >= n => s2 >= step

\* u is the smallest integer multiple of step that is strictly above m
IsNextMultiple(u, step, m) == u % step = 0 /\ u > m /\ u - step <= m

\* C3: for kind density or magnetization choose_zrange returns zmin == 0.0,
\* whatever the grid and the robust flag.
C3_ZminPinnedToZero ==
    (ZDone /\ kind \in {"density", "magnetization"}) => zres.zmin = Num(0, 0)

\* C9: choose_zrange returns zmin < zmax strictly, for every kind, robust
\* setting and grid.
C9_RangeNeverEmpty == ZDone => NumLess(zres.zmin, zres.zmax)

\* C4 as stated: whenever the grid has a finite value, step is the smallest
\* m * 10^k >= max_val / 7 and the returned zmax is the smallest multiple of
\* step strictly greater than max_val.
C4_ZmaxNextTick ==
    (ZDone /\ GridFinite # {}) =>
        /\ zloc.max_val = GridMax
        /\ IsSmallestNiceAtLeast(zloc.step, GridMax, TickTarget)
        /\ zres.zmax.t = 0
        /\ IsNextMultiple(zres.zmax.u, zloc.step, GridMax)

\* C4 amended: the returned zmax is strictly greater than max_val; step is
\* the smallest m * 10^k >= max_val / 7 when max_val > 0 and 1.0 when
\* max_val <= 0; zmax is the smallest multiple of step strictly greater than
\* max_val, except for density and magnetization with -1 <= max_val < 0, where
\* that multiple is 0 = zmin and the guard returns zmax = 1e-12.
C4_ZmaxNextTickAmended ==
    (ZDone /\ GridFinite # {}) =>
        /\ zloc.max_val = GridMax
        /\ NumLess(Num(GridMax, 0), zres.zmax)
        /\ IF GridMax > 0
           THEN IsSmallestNiceAtLeast(zloc.step, GridMax, TickTarget)
           ELSE zloc.step = Scale
        /\ IF kind \in {"density", "magnetization"} /\ -Scale <= GridMax /\ GridMax < 0
           THEN zres.zmax = Num(0, 1)
           ELSE zres.zmax.t = 0 /\ IsNextMultiple(zres.zmax.u, zloc.step, GridMax)

\* the claim's example: max_val = 0.7 gives step = 0.1 and zmax = 0.8
C4_Witness ==
    /\ ZDone /\ GridFinite # {} /\ GridMax = 7000
    /\ zloc.step = 1000 /\ zres.zmax = Num(8000, 0)

\* C5: in choose_zrange and in robust_range, when the bounds computed before
\* the guard are both v the result is (v - eps, v + eps), eps = 1e-12 for
\* v = 0 and 0.1% of |v| otherwise, hence zmin < zmax; when they differ the
\* guard returns them unchanged.
ExpectedGuard(lo, hi, res) ==
    IF lo = hi
    THEN /\ res.zmin = (IF lo = 0 THEN Num(0, -1) ELSE Num(lo - Abs(lo) \div 1000, 0))
         /\ res.zmax = (IF lo = 0 THEN Num(0, 1) ELSE Num(lo + Abs(lo) \div 1000, 0))
         /\ NumLess(res.zmin, res.zmax)
    ELSE res = [zmin |-> Num(lo, 0), zmax |-> Num(hi, 0)]

C5_DegenerateGuard ==
    /\ (ZDone /\ ~zloc.empty) => ExpectedGuard(zloc.zmin, zloc.zmax, zres)
    /\ (RDone /\ ~rloc.empty) => ExpectedGuard(rloc.lo, rloc.hi, rres)

\* both guards fire: choose_zrange at 0, robust_range at a non-zero value
C5_Witness ==
    /\ RDone /\ ~zloc.empty /\ ~rloc.empty
    /\ zloc.zmin = zloc.zmax
    /\ rloc.lo = rloc.hi /\ rloc.lo # 0

(***************************************************************************)
(* Property of to_grid (under SpecGrid).                                   *)
(***************************************************************************)
RowIdx == 1..Len(df.rows)
RowsAt(x, y) == {j \in RowIdx : df.rows[j].x = x /\ df.rows[j].y = y}
Greatest(S) == CHOOSE m \in S : \A j \in S : j <= m

\* C2: for a non-empty list of rows with x, y >= 0, to_grid returns a grid of
\* shape (max(y)+1, max(x)+1) with lx = max(x)+1 and ly = max(y)+1; cell [y][x]
\* holds the value of the last row with that coordinate, and NaN when no row
\* has it.
C2_ToGrid ==
    (gpc = "done" /\ df.columns = FullColumns /\ df.rows # <<>>) =>
        LET w == Greatest({df.rows[j].x : j \in RowIdx}) + 1
            h == Greatest({df.rows[j].y : j \in RowIdx}) + 1
        IN  /\ gres.err = "none"
            /\ gres.lx = w /\ gres.ly = h
            /\ Len(gres.grid) = h
            /\ \A y \in 0..(h - 1) :
                 /\ Len(gres.grid[y + 1]) = w
                 /\ \A x \in 0..(w - 1) :
                      gres.grid[y + 1][x + 1] =
                          IF RowsAt(x, y) = {} THEN NaN
                          ELSE df.rows[Greatest(RowsAt(x, y))].val

\* a duplicate coordinate whose rows disagree, in a grid with a gap
C2_Witness ==
    /\ gpc = "done" /\ gres.err = "none"
    /\ \E a, b \in RowIdx :
         /\ a < b
         /\ df.rows[a].x = df.rows[b].x /\ df.rows[a].y = df.rows[b].y
         /\ df.rows[a].val # df.rows[b].val
    /\ \E y \in 1..gres.ly, x \in 1..gres.lx : gres.grid[y][x] = NaN

(***************************************************************************)
(* Property of make_out_path (under SpecPath).                             *)
(***************************************************************************)
EndsWith(s, x) == Len(s) >= Len(x) /\ SubSeq(s, Len(s) - Len(x) + 1, Len(s)) = x

ExamplePlot3d ==
    <<"b", "d", "g", "_", "p", "l", "o", "t", "_", "3", "d", "_", "d", "e", "n",
      "s", "i", "t", "y", "_", "N", "=", "1", "0", "0", "_", "h", "=", "0", ".",
      "0", "0", ".", "h", "t", "m", "l">>
ExamplePlot2d ==
    <<"b", "d", "g", "_", "p", "l", "o", "t", "_", "2", "d", "_", "d", "e", "n",
      "s", "i", "t", "y", "_", "N", "=", "1", "0", "0", "_", "h", "=", "0", ".",
      "0", "0", ".", "h", "t", "m", "l">>

\* C7: for a CSV path <base>.csv and dim in {3d, 2d}, make_out_path returns
\* <out_dir>/bdg_plot_<dim>_<rest>.html, <rest> being <base> with one leading
\* "bdg_" removed if present; bdg_density_N=100_h=0.00.csv gives
\* bdg_plot_3d_density_N=100_h=0.00.html and bdg_plot_2d_density_N=100_h=0.00.html.
C7_MakeOutPath ==
    LET name == pin.csv_path.name
        base == SubSeq(name, 1, Len(name) - Len(Cs_csv))
        rest == IF Len(base) >= 4 /\ base[1] = "b" /\ base[2] = "d"
                   /\ base[3] = "g" /\ base[4] = "_"
                THEN [j \in 1..(Len(base) - 4) |-> base[j + 4]]
                ELSE base
    IN  (ppc = "done" /\ EndsWith(name, Cs_csv) /\ Len(name) > Len(Cs_csv)) =>
            /\ pout.dir = pin.out_dir
            /\ pout.name = Cs_plot \o pin.dim \o <<"_">> \o rest \o Cs_html
            /\ (name = ExampleName /\ pin.dim = Cs_3d) => pout.name = ExamplePlot3d
            /\ (name = ExampleName /\ pin.dim = Cs_2d) => pout.name = ExamplePlot2d

C7_Witness ==
    /\ ppc = "done" /\ pin.csv_path.name = ExampleName /\ pin.dim = Cs_3d
    /\ pin.out_dir = "out" /\ pout = [dir |-> "out", name |-> ExamplePlot3d]

(***************************************************************************)
(* Properties of main and pick_latest_file (under SpecMain).               *)
(***************************************************************************)
LogIdx == 1..Len(log)
Terminal == pc \in {"done", "error"}

\* C1: with --only3d and --only2d both set, main fails with the configuration
\* error before any filesystem action: no directory is created, no file is
\* selected, no CSV is read and no HTML file is written, whatever the input
\* directory holds.
C1_ConflictBeforeIO ==
    (args.only3d /\ args.only2d) =>
        /\ pc \in {"check", "error"}
        /\ pc = "error" => err.type = "ValueError" /\ log = <<Event("raise", "", <<>>, NoPath)>>
        /\ pc = "check" => log = <<>>
        /\ dirs = {InDir}
        /\ \A k \in KindSet : chosen[k] = NoPath
        /\ \A j \in LogIdx : log[j].op \notin {"mkdir", "glob", "read_csv", "write_html"}

C1_Witness ==
    /\ args.only3d /\ args.only2d /\ pc = "error"
    /\ \A j \in 1..Len(Catalogue) : fs[j] > 0

\* a name matches bdg_<kind>_*.csv: it starts with bdg_<kind>_, ends with .csv
\* and is long enough to hold both
MatchesKind(name, k) ==
    LET pre == Cs_bdg \o KindChars(k) \o <<"_">>
    IN  /\ Len(name) >= Len(pre) + Len(Cs_csv)
        /\ SubSeq(name, 1, Len(pre)) = pre
        /\ SubSeq(name, Len(name) - Len(Cs_csv) + 1, Len(name)) = Cs_csv
MatchingFiles(k) == {j \in 1..Len(Catalogue) : fs[j] > 0 /\ MatchesKind(Catalogue[j], k)}
GlobDone(k) == \E j \in LogIdx : log[j].op = "glob" /\ log[j].kind = k

\* C6: pick_latest_file fails with NotFound, naming the pattern and the
\* directory, when no file matches; otherwise it returns a matching file whose
\* modification time is at least that of every matching file.
C6_PickLatest ==
    \A k \in KindSet :
        /\ GlobDone(k) =>
             IF MatchingFiles(k) = {}
             THEN /\ chosen[k] = NoPath
                  /\ pc = "error"
                  /\ err = [type |-> "FileNotFoundError",
                            pattern |-> Cs_bdg \o KindChars(k) \o <<"_", "*">> \o Cs_csv,
                            directory |-> InDir]
             ELSE \E f \in MatchingFiles(k) :
                    /\ chosen[k] = [dir |-> InDir, name |-> Catalogue[f]]
                    /\ \A g \in MatchingFiles(k) : fs[f] >= fs[g]
        /\ ~GlobDone(k) => chosen[k] = NoPath

\* the newest matching file wins over an older match and a non-match as new
C6_Witness ==
    /\ fs[1] = 2 /\ fs[2] = 1 /\ fs[3] = 2
    /\ chosen["density"] = [dir |-> InDir, name |-> Catalogue[1]]

\* the outputs written so far, in order
Writes ==
    LET w == SelectSeq(log, LAMBDA e : e.op = "write_html")
    IN  [j \in 1..Len(w) |-> <<w[j].kind, w[j].dim>>]

ExpectedWrites ==
    IF ~args.only3d /\ ~args.only2d
    THEN << <<"density", Cs_3d>>, <<"density", Cs_2d>>,
            <<"orderParameter", Cs_3d>>, <<"orderParameter", Cs_2d>>,
            <<"magnetization", Cs_3d>>, <<"magnetization", Cs_2d>> >>
    ELSE IF args.only3d /\ ~args.only2d
    THEN << <<"density", Cs_3d>>, <<"orderParameter", Cs_3d>>, <<"magnetization", Cs_3d>> >>
    ELSE IF args.only2d /\ ~args.only3d
    THEN << <<"density", Cs_2d>>, <<"orderParameter", Cs_2d>>, <<"magnetization", Cs_2d>> >>
    ELSE << >>

IsPrefix(a, b) == Len(a) <= Len(b) /\ a = SubSeq(b, 1, Len(a))

\* C8: in a run in which nothing fails the kinds are rendered in the order
\* density, orderParameter, magnetization, each with its 3D output unless
\* --only2d and then its 2D output unless --only3d (six, three or three
\* outputs), and the run then terminates.
C8_RenderOrder ==
    /\ pc # "error" => IsPrefix(Writes, ExpectedWrites)
    /\ pc = "done" =>
         /\ Writes = ExpectedWrites
         /\ log[Len(log)] = Event("print", "done", <<>>, NoPath)
    /\ Len(log) <= 25
    /\ ~Terminal => ENABLED NextMain
    /\ pc = "done" => ~ENABLED NextMain

C8_Witness ==
    /\ pc = "done" /\ ~args.only3d /\ ~args.only2d /\ Len(Writes) = 6

\* C10: main selects the latest file of all three kinds before it renders
\* anything; if a kind has no matching CSV the run aborts with NotFound and no
\* HTML file is written, whatever the flags; after a failure no selection and
\* no render is executed.
C10_SelectAllThenFailFast ==
    /\ \A j \in LogIdx :
         log[j].op \in {"read_csv", "write_html"} =>
             \A k \in KindSet :
                 \E g \in 1..(j - 1) :
                     log[g].op = "glob" /\ log[g].kind = k /\ log[g].path # NoPath
    /\ (\E k \in KindSet : MatchingFiles(k) = {}) =>
         /\ pc \in {"check", "mkdir", "select", "error"}
         /\ Writes = << >>
         /\ (pc = "error" /\ ~(args.only3d /\ args.only2d)) =>
                err.type = "FileNotFoundError"
    /\ \A j \in LogIdx : log[j].op = "raise" => j = Len(log)
    /\ pc = "error" <=> (log # << >> /\ log[Len(log)].op = "raise")
    /\ pc = "error" => ~ENABLED NextMain

\* the last kind is the missing one: two selections succeeded, nothing written
C10_Witness ==
    /\ pc = "error" /\ err.type = "FileNotFoundError" /\ ki = 3
    /\ chosen["density"] # NoPath /\ chosen["orderParameter"] # NoPath
    /\ Writes = << >>

====
